---- MODULE Spec2Model ----
(***************************************************************************)
(* The ASE / Quantum Espresso / McStas notebook (ase.ipynb) as a state     *)
(* machine: one action per code cell, executed top to bottom.  An          *)
(* uncaught Python exception halts the run; os.system never raises.        *)
(*                                                                         *)
(* Path strings are sequences of their "/"-separated components (a leading *)
(* "" marks an absolute path), the file system maps normalised absolute    *)
(* paths to contents, atom positions are one integer per atom.             *)
(***************************************************************************)
EXTENDS Integers, Sequences, FiniteSets, TLC

\* ---------------------------------------------------------------- bounds
NAtomsModel == 2      \* atoms in the modelled structure
PosMax == 1           \* a position coordinate ranges over 0..PosMax
AsinTerms == 6        \* terms of the arcsine series the engine's asin is computed with

Positions == [1..NAtomsModel -> 0..PosMax]

\* ----------------------------------------------------------- path strings
Last(s) == s[Len(s)]
Front(s) == SubSeq(s, 1, Len(s) - 1)

\* Python "a + b" on two path strings: the last component of a and the first
\* of b become one component.
PyCat(a, b) == Front(a) \o <<Last(a) \o b[1]>> \o Tail(b)

IsAbs(p) == Len(p) > 1 /\ p[1] = ""

RECURSIVE Walk(_, _)
\* Walk(base, p): follow the components of p from the directory base.
Walk(base, p) ==
    IF p = <<>> THEN base
    ELSE LET c == Head(p) IN
         IF c = "" \/ c = "." THEN Walk(base, Tail(p))
         ELSE IF c = ".." THEN Walk(IF base = <<>> THEN base ELSE Front(base), Tail(p))
         ELSE Walk(Append(base, c), Tail(p))

\* The file a path string names when the working directory is dir.
Resolve(dir, p) == IF IsAbs(p) THEN Walk(<<>>, p) ELSE Walk(dir, p)

\* ------------------------------------------------------------ file system
Dir == [kind |-> "dir", pos |-> <<>>]
Empty == [kind |-> "empty", pos |-> <<>>]
Opaque == [kind |-> "data", pos |-> <<>>]
Structure(p) == [kind |-> "structure", pos |-> p]

Exists(f, p) == p \in DOMAIN f
IsDir(f, p) == p = <<>> \/ (Exists(f, p) /\ f[p].kind = "dir")
IsFile(f, p) == Exists(f, p) /\ f[p].kind # "dir"
NonEmptyFile(f, p) == IsFile(f, p) /\ f[p].kind # "empty"

PutFile(f, p, c) == [q \in DOMAIN f \cup {p} |-> IF q = p THEN c ELSE f[q]]

Prefixes(p) == {SubSeq(p, 1, n) : n \in 1..Len(p)}

\* os.makedirs(p, exist_ok=True): p and every missing ancestor become directories.
MakeDirs(f, p) ==
    [q \in DOMAIN f \cup Prefixes(p) |-> IF q \in DOMAIN f THEN f[q] ELSE Dir]

\* ------------------------------------------------------- notebook literals
tmpdir_lit == <<"", "tmp", "jupiter", "">>
mcstas_outdir_lit == <<"mcstas_output">>
CIF_file_lit == <<"1527603.cif">>
pseudopotfile_first == <<"N.pbe-n-kjpaw_psl.1.0.0.UPF">>
pseudopotfile_second == <<"N.pbe-n-radius_5.UPF">>
pseudo_suffix == <<"", "pseudo", "">>
ase_outfile_lit == <<"output.cif">>
pwo_name == <<"espresso.pwo">>
pwi_name == <<"espresso.pwi">>
clone_dir == <<"McStas_ViNYL_concept">>
reflections_lit == <<"..", "output.cif.hkl">>

Unset == <<>>

\* -------------------------------------------------------------- the cells
\* The code cells of the notebook that change state, in notebook order (Cells).
\* CellsConfigureFirst: the solver configured before the structure is read.
CellsConfigureFirst ==
    << "workspace", "download_cif", "download_pseudo", "configure", "read_cif",
       "solver_run", "read_output_diff", "export_cif", "cif2hkl", "clone",
       "enter_clone", "assemble", "simulate", "plot" >>

Cells ==
    << "workspace", "download_cif", "download_pseudo", "read_cif", "configure",
       "solver_run", "read_output_diff", "export_cif", "cif2hkl", "clone",
       "enter_clone", "assemble", "simulate", "plot" >>

VARIABLES
    pc,            \* index in Cells of the next cell to run
    halted,        \* an uncaught exception has stopped the run
    cwd,           \* the process's working directory (normalised absolute path)
    fs,            \* the file system: path -> content
    py,            \* the notebook's global names that hold path strings
    refs,          \* the global names that hold Atoms objects (0: not bound)
    heap,          \* the Atoms objects, by identity
    calc,          \* the Espresso calculator's configuration
    posDiff,       \* the value of the position diff expression
    Instr,         \* the McStas_instr object under assembly
    asmPc,         \* next statement of the assembly cell
    engine,        \* what the simulation engine was handed and computed
    executed,      \* the cells started so far, in order
    failed,        \* the cells whose external command or library call failed
    dest,          \* <<cell, file>>: the files the commands issued so far write to
    solver,        \* "idle", or how the solver invocation ended
    serverCif      \* the structure the database serves

vars == << pc, halted, cwd, fs, py, refs, heap, calc, posDiff, Instr, asmPc,
           engine, executed, failed, dest, solver, serverCif >>

TmpRoot == Walk(<<>>, tmpdir_lit)

NoCalc == [set |-> FALSE, pseudopotentials |-> Unset, pseudo_dir |-> Unset,
           outdir |-> Unset, nat |-> 0]

NewInstr == [created |-> FALSE, parameters |-> << >>, components |-> << >>,
             declare |-> << >>, initialize |-> << >>]

Init ==
    /\ pc = 1
    /\ halted = FALSE
    /\ cwd = <<"home">>
    /\ serverCif \in Positions
    /\ fs = << >>
    /\ py = [tmpdir |-> Unset, mcstas_outdir |-> Unset, CIF_file |-> Unset,
             pseudopotfile |-> Unset, pseudo_dir |-> Unset, ase_outfile |-> Unset,
             hklfile |-> Unset]
    /\ refs = [atomCIF |-> 0, atom |-> 0, atomsOUT |-> 0]
    /\ heap = << >>
    /\ calc = NoCalc
    /\ posDiff = << >>
    /\ Instr = NewInstr
    /\ asmPc = 1
    /\ engine = [invoked |-> FALSE, reflections |-> Unset, wavevector |-> 0,
                 mono_theta |-> 0]
    /\ executed = << >>
    /\ failed = {}
    /\ dest = {}
    /\ solver = "idle"

\* ------------------------------------------------------- running a cell
AtCell(name) == ~halted /\ pc \in 1..Len(Cells) /\ Cells[pc] = name

\* The cell ran to its end.
Finish(name) ==
    /\ pc' = pc + 1
    /\ halted' = FALSE
    /\ executed' = Append(executed, name)

\* A statement of the cell raised; nothing catches it.
Raise(name) ==
    /\ pc' = pc
    /\ halted' = TRUE
    /\ executed' = Append(executed, name)
    /\ failed' = failed \cup {name}

\* os.chdir(p): the new working directory, when p names a directory.
CanChdir(f, dir, p) == IsDir(f, Resolve(dir, p))

\* cell "tmpdir='/tmp/jupiter/' ...", with mcstas_outdir from the cell before it
Workspace ==
    /\ AtCell("workspace")
    /\ LET f1 == MakeDirs(fs, Resolve(cwd, tmpdir_lit))
           d1 == Resolve(cwd, tmpdir_lit)
       IN  /\ cwd' = d1
           /\ fs' = MakeDirs(f1, Resolve(d1, mcstas_outdir_lit))
    /\ py' = [py EXCEPT !.tmpdir = tmpdir_lit, !.mcstas_outdir = mcstas_outdir_lit]
    /\ Finish("workspace")
    /\ UNCHANGED << refs, heap, calc, posDiff, Instr, asmPc, engine, failed,
                    dest, solver, serverCif >>

\* os.system("wget -c <url>/" + name): the exit status is discarded.
Wget(f, dir, name, ok, content) ==
    IF ok THEN PutFile(f, Resolve(dir, name), content) ELSE f

\* cell "CIF_file = '1527603.cif' ... os.system(wget ...)"
DownloadCif ==
    /\ AtCell("download_cif")
    /\ \E ok \in BOOLEAN :
        /\ fs' = Wget(fs, cwd, CIF_file_lit, ok, Structure(serverCif))
        /\ failed' = IF ok THEN failed ELSE failed \cup {"download_cif"}
    /\ dest' = dest \cup {<<"download_cif", Resolve(cwd, CIF_file_lit)>>}
    /\ py' = [py EXCEPT !.CIF_file = CIF_file_lit]
    /\ Finish("download_cif")
    /\ UNCHANGED << cwd, refs, heap, calc, posDiff, Instr, asmPc, engine,
                    solver, serverCif >>

\* cell "pseudopotfile = ... os.chdir(pseudo_dir) ... os.chdir(tmpdir) ..."
DownloadPseudo ==
    /\ AtCell("download_pseudo")
    /\ LET pdir == PyCat(py.tmpdir, pseudo_suffix)
           f1 == MakeDirs(fs, Resolve(cwd, pdir))
           d1 == Resolve(cwd, pdir)
       IN  /\ \E ok1 \in BOOLEAN, ok2 \in BOOLEAN :
               /\ fs' = Wget(Wget(f1, d1, pseudopotfile_first, ok1, Opaque),
                             d1, pseudopotfile_second, ok2, Opaque)
               /\ failed' = IF ok1 /\ ok2 THEN failed
                            ELSE failed \cup {"download_pseudo"}
           /\ dest' = dest \cup {<<"download_pseudo", Resolve(d1, pseudopotfile_first)>>,
                                 <<"download_pseudo", Resolve(d1, pseudopotfile_second)>>}
           /\ cwd' = Resolve(d1, py.tmpdir)
           /\ py' = [py EXCEPT !.pseudo_dir = pdir,
                               !.pseudopotfile = pseudopotfile_second]
    /\ Finish("download_pseudo")
    /\ UNCHANGED << refs, heap, calc, posDiff, Instr, asmPc, engine, solver,
                    serverCif >>

\* ----------------------------------------------------- structure and solver
NewAtoms(p) == [positions |-> p, calc |-> FALSE]

\* io.read(name): the Atoms object parsed from a structure file; raises when
\* the file is missing or holds no structure.
Readable(f, dir, name) ==
    IsFile(f, Resolve(dir, name)) /\ f[Resolve(dir, name)].kind = "structure"

\* cell "atomCIF = io.read(CIF_file)"
ReadCif ==
    /\ AtCell("read_cif")
    /\ IF Readable(fs, cwd, py.CIF_file)
       THEN /\ heap' = Append(heap, NewAtoms(fs[Resolve(cwd, py.CIF_file)].pos))
            /\ refs' = [refs EXCEPT !.atomCIF = Len(heap) + 1]
            /\ Finish("read_cif")
            /\ UNCHANGED failed
       ELSE /\ Raise("read_cif")
            /\ UNCHANGED << heap, refs >>
    /\ UNCHANGED << cwd, fs, py, calc, posDiff, Instr, asmPc, engine, dest,
                    solver, serverCif >>

nat == 8

\* calc = Espresso(pseudopotentials={'N': pseudopotfile}, ..., nat=8, ...,
\*                 outdir=tmpdir, pseudo_dir=pseudo_dir, ...)
Espresso ==
    [set |-> TRUE, pseudopotentials |-> py.pseudopotfile,
     pseudo_dir |-> py.pseudo_dir, outdir |-> py.tmpdir, nat |-> nat]

\* cell "calc = Espresso(...); atom = atomCIF; atom.calc = calc"
\* atom is a second name of the object atomCIF names, not a copy.
Configure ==
    /\ AtCell("configure")
    /\ calc' = Espresso
    /\ IF refs.atomCIF # 0
       THEN /\ refs' = [refs EXCEPT !.atom = refs.atomCIF]
            /\ heap' = [heap EXCEPT ![refs.atomCIF].calc = TRUE]
            /\ Finish("configure")
            /\ UNCHANGED failed
       ELSE /\ Raise("configure")
            /\ UNCHANGED << refs, heap >>
    /\ UNCHANGED << cwd, fs, py, posDiff, Instr, asmPc, engine, dest,
                    solver, serverCif >>

\* The file the solver looks its pseudopotential up in.
PseudoPath(c) == Resolve(Resolve(cwd, c.pseudo_dir), c.pseudopotentials)

\* The calculation writing the relaxed positions into the object it ran on.
AfterCalculationInPlace(obj, relaxed) == [obj EXCEPT !.positions = relaxed]

\* The Atoms object after atom.get_potential_energy() returned: results are
\* parsed into the calculator, the object's own positions stay what they were.
AfterCalculation(obj, relaxed) == obj

\* How a solver invocation can end: the notebook looks at none of it.
SolverOutcomes == {"converged", "not_converged", "error"}

\* cell "potential_energy = atom.get_potential_energy() ..."
\* Writes espresso.pwi, runs the solver, which writes espresso.pwo; only a
\* solver that could not run at all raises.
SolverRun ==
    /\ AtCell("solver_run")
    /\ \E outcome \in SolverOutcomes, relaxed \in Positions :
        /\ refs.atom = 0 => outcome = "error"
        /\ refs.atom # 0 /\ ~IsFile(fs, PseudoPath(calc)) => outcome = "error"
        /\ outcome = "error" => relaxed = serverCif
        /\ solver' = outcome
        /\ IF outcome = "error"
           THEN /\ fs' = IF refs.atom = 0 THEN fs
                         ELSE PutFile(fs, Resolve(cwd, pwi_name),
                                      Structure(heap[refs.atom].positions))
                /\ Raise("solver_run")
                /\ UNCHANGED heap
           ELSE /\ fs' = PutFile(PutFile(fs, Resolve(cwd, pwi_name),
                                         Structure(heap[refs.atom].positions)),
                                 Resolve(cwd, pwo_name), Structure(relaxed))
                /\ heap' = [heap EXCEPT
                              ![refs.atom] = AfterCalculation(heap[refs.atom], relaxed)]
                /\ Finish("solver_run")
                /\ failed' = IF outcome = "converged" THEN failed
                             ELSE failed \cup {"solver_run"}
    /\ UNCHANGED << cwd, py, refs, calc, posDiff, Instr, asmPc, engine, dest,
                    serverCif >>

\* atomsOUT.get_positions() - atom.get_positions()
Diff(after, before) == [i \in 1..NAtomsModel |-> after[i] - before[i]]

\* cell "atomsOUT = io.read('espresso.pwo',index=-1); atomsOUT... - atom..."
ReadOutputDiff ==
    /\ AtCell("read_output_diff")
    /\ IF Readable(fs, cwd, pwo_name)
       THEN /\ heap' = Append(heap, NewAtoms(fs[Resolve(cwd, pwo_name)].pos))
            /\ refs' = [refs EXCEPT !.atomsOUT = Len(heap) + 1]
            /\ posDiff' = Diff(fs[Resolve(cwd, pwo_name)].pos, heap[refs.atom].positions)
            /\ Finish("read_output_diff")
            /\ UNCHANGED failed
       ELSE /\ Raise("read_output_diff")
            /\ UNCHANGED << heap, refs, posDiff >>
    /\ UNCHANGED << cwd, fs, py, calc, Instr, asmPc, engine, dest, solver,
                    serverCif >>

\* The object io.write(ase_outfile, atom) serialises.
Exported == refs.atom

\* cell "ase_outfile = 'output.cif'; hklfile=ase_outfile+'.hkl'; io.write(...)"
ExportCif ==
    /\ AtCell("export_cif")
    /\ py' = [py EXCEPT !.ase_outfile = ase_outfile_lit,
                        !.hklfile = PyCat(ase_outfile_lit, <<".hkl">>)]
    /\ \E ok \in BOOLEAN :
        IF ok
        THEN /\ fs' = PutFile(fs, Resolve(cwd, ase_outfile_lit),
                              Structure(heap[Exported].positions))
             /\ Finish("export_cif")
             /\ UNCHANGED failed
        ELSE /\ Raise("export_cif")
             /\ UNCHANGED fs
    /\ dest' = dest \cup {<<"export_cif", Resolve(cwd, ase_outfile_lit)>>}
    /\ UNCHANGED << cwd, refs, heap, calc, posDiff, Instr, asmPc, engine,
                    solver, serverCif >>

\* The reflection table cif2hkl derives from a structure.
Hkl(p) == [kind |-> "hkl", pos |-> p]

\* cif2hkl <file>: writes <file>.hkl next to <file>.
Cif2hklOut(dir, name) == Resolve(dir, PyCat(name, <<".hkl">>))

\* cell "os.system('cif2hkl '+ase_outfile)": the exit status is discarded.
Cif2hkl ==
    /\ AtCell("cif2hkl")
    /\ \E outcome \in {"ok", "empty", "fail"} :
        /\ outcome = "ok" => Readable(fs, cwd, py.ase_outfile)
        /\ fs' = IF outcome = "ok"
                 THEN PutFile(fs, Cif2hklOut(cwd, py.ase_outfile),
                              Hkl(fs[Resolve(cwd, py.ase_outfile)].pos))
                 ELSE IF outcome = "empty"
                 THEN PutFile(fs, Cif2hklOut(cwd, py.ase_outfile), Empty)
                 ELSE fs
        /\ failed' = IF outcome = "ok" THEN failed ELSE failed \cup {"cif2hkl"}
    /\ dest' = dest \cup {<<"cif2hkl", Cif2hklOut(cwd, py.ase_outfile)>>}
    /\ Finish("cif2hkl")
    /\ UNCHANGED << cwd, py, refs, heap, calc, posDiff, Instr, asmPc, engine,
                    solver, serverCif >>

\* cell "os.system("git clone ...McStas_ViNYL_concept.git")"
Clone ==
    /\ AtCell("clone")
    /\ \E ok \in BOOLEAN :
        /\ ok => ~Exists(fs, Resolve(cwd, clone_dir))
        /\ fs' = IF ok THEN MakeDirs(fs, Resolve(cwd, clone_dir)) ELSE fs
        /\ failed' = IF ok THEN failed ELSE failed \cup {"clone"}
    /\ Finish("clone")
    /\ UNCHANGED << cwd, py, refs, heap, calc, posDiff, Instr, asmPc, engine,
                    dest, solver, serverCif >>

\* The commented-out "os.chdir(tmpdir)" taken instead of the chdir into the clone.
InstrumentDirTmp(dir) == Resolve(dir, py.tmpdir)

\* The directory the instrument is assembled and run in.
InstrumentDir(dir) == Resolve(dir, clone_dir)

\* cell "os.chdir('McStas_ViNYL_concept'); os.makedirs(mcstas_outdir, ...)"
EnterClone ==
    /\ AtCell("enter_clone")
    /\ IF CanChdir(fs, cwd, clone_dir)
       THEN /\ cwd' = InstrumentDir(cwd)
            /\ fs' = MakeDirs(fs, Resolve(InstrumentDir(cwd), py.mcstas_outdir))
            /\ Finish("enter_clone")
            /\ UNCHANGED failed
       ELSE /\ Raise("enter_clone")
            /\ UNCHANGED << cwd, fs >>
    /\ UNCHANGED << py, refs, heap, calc, posDiff, Instr, asmPc, engine,
                    dest, solver, serverCif >>

\* -------------------------------------------------- fixed-point arithmetic
\* Reals are integers scaled by Scale; RoundDiv rounds to nearest.
Scale == 10 * 1000
RoundDiv(a, b) == (2 * a + b) \div (2 * b)
Abs(a) == IF a < 0 THEN -a ELSE a
NaN == -1

PI == RoundDiv(355 * Scale, 113)

\* RAD2DEG*x, RAD2DEG being 180/PI
RadToDeg(x) == RoundDiv(x * 180 * 113, 355)

RECURSIVE AsinSeries(_, _, _, _)
\* The Maclaurin series of asin from term number n on; term is the n-th term.
AsinSeries(x2, term, n, left) ==
    IF left = 0 THEN 0
    ELSE term + AsinSeries(x2,
                           RoundDiv(RoundDiv(term * x2, Scale) * (2 * n + 1) * (2 * n + 1),
                                    (2 * n + 2) * (2 * n + 3)),
                           n + 1, left - 1)

\* asin(x) for 0 <= x <= 1, in radians; outside of [-1, 1] asin is NaN.
Asin(x) ==
    IF x < 0 \/ x > Scale THEN NaN
    ELSE AsinSeries(RoundDiv(x * x, Scale), x, 0, AsinTerms)

\* "wavevector = 2*PI/wavelength;"
Wavevector(wavelength) == RoundDiv(2 * PI * Scale, wavelength)

\* The Bragg relation without its factor 0.5.
MonoThetaNoHalf(mono_Q, wavevector) ==
    IF wavevector <= 0 THEN NaN
    ELSE LET a == Asin(RoundDiv(mono_Q * Scale, wavevector))
         IN  IF a = NaN THEN NaN ELSE RadToDeg(a)

\* "mono_theta = RAD2DEG*asin(0.5*mono_Q/wavevector);"
MonoTheta(mono_Q, wavevector) ==
    IF wavevector <= 0 THEN NaN
    ELSE LET a == Asin(RoundDiv(mono_Q * Scale, 2 * wavevector))
         IN  IF a = NaN THEN NaN ELSE RadToDeg(a)

\* ------------------------------------------------------ instrument assembly
stmt_wavevector == "wavevector = 2*PI/wavelength;"
stmt_mono_theta == "mono_theta = RAD2DEG*asin(0.5*mono_Q/wavevector);"

Step(op, name, rel, rot, val, path) ==
    [op |-> op, name |-> name, rel |-> rel, rot |-> rot, val |-> val, path |-> path]

\* The statements of the assembly cell that build the instrument, in order
\* (AssemblySteps), group by group.
\* rel is the RELATIVE= argument ("" when the call has none), rot the second
\* ROTATED= coordinate, val a parameter's value, path a file parameter.
StepsBeam ==
    << Step("McStas_instr", "powder_diffractometer", "", "", 0, Unset),
       Step("add_parameter", "wavelength", "", "", RoundDiv(12 * Scale, 10), Unset),
       Step("add_component", "Source", "", "", 0, Unset),
       Step("add_component", "guide", "Source", "", 0, Unset),
       Step("add_component", "guide_end", "guide", "", 0, Unset),
       Step("add_component", "mono_pos", "guide_end", "", 0, Unset) >>

StepsBragg ==
    << Step("add_parameter", "mono_Q", "", "", RoundDiv(3355 * Scale, 1000), Unset),
       Step("add_declare_var", "mono_theta", "", "", 0, Unset),
       Step("add_declare_var", "wavevector", "", "", 0, Unset),
       Step("append_initialize", stmt_wavevector, "", "", 0, Unset),
       Step("append_initialize", stmt_mono_theta, "", "", 0, Unset) >>

StepsMono ==
    << Step("add_component", "mono", "mono_pos", "", 0, Unset),
       Step("set_ROTATED", "mono", "mono_pos", "mono_theta", 0, Unset),
       Step("add_component", "mono_out", "mono", "mono_theta", 0, Unset) >>

StepsSample ==
    << Step("add_component", "L_mon", "mono_out", "", 0, Unset),
       Step("add_component", "sample", "mono_out", "", 0, Unset),
       Step("set_reflections", "sample", "", "", 0, reflections_lit),
       Step("add_component", "monitor", "sample", "", 0, Unset) >>

\* The detector statements moved in front of the monochromator's.
AssemblyStepsSampleFirst == StepsBeam \o StepsBragg \o StepsSample \o StepsMono

AssemblySteps == StepsBeam \o StepsBragg \o StepsMono \o StepsSample

Absolute == "ABSOLUTE"

\* add_component(name, ..., RELATIVE=rel, ROTATED=[0, rot, 0]): RELATIVE sets
\* the reference of both the position and the rotation; nothing is validated.
Component(st) ==
    [name |-> st.name,
     at_rel |-> IF st.rel = "" THEN Absolute ELSE st.rel,
     rot_rel |-> IF st.rel = "" THEN Absolute ELSE st.rel,
     rot |-> st.rot,
     reflections |-> Unset]

\* The instrument after one statement of the assembly cell.
Apply(ins, st) ==
    IF st.op = "McStas_instr" THEN [NewInstr EXCEPT !.created = TRUE]
    ELSE IF st.op = "add_parameter"
    THEN [ins EXCEPT !.parameters = Append(@, [name |-> st.name, value |-> st.val])]
    ELSE IF st.op = "add_declare_var"
    THEN [ins EXCEPT !.declare = Append(@, st.name)]
    ELSE IF st.op = "append_initialize"
    THEN [ins EXCEPT !.initialize = Append(@, st.name)]
    ELSE IF st.op = "add_component"
    THEN [ins EXCEPT !.components = Append(@, Component(st))]
    ELSE IF st.op = "set_ROTATED"
    THEN [ins EXCEPT !.components =
            [i \in DOMAIN @ |->
                IF @[i].name = st.name
                THEN [@[i] EXCEPT !.rot = st.rot, !.rot_rel = st.rel]
                ELSE @[i]]]
    ELSE [ins EXCEPT !.components =
            [i \in DOMAIN @ |->
                IF @[i].name = st.name
                THEN [@[i] EXCEPT !.reflections = st.path]
                ELSE @[i]]]

\* cell "Instr = instr.McStas_instr(...) ... monitor.filename = ...", one
\* statement at a time; the cell ends with its last statement.
Assemble ==
    /\ AtCell("assemble")
    /\ asmPc \in 1..Len(AssemblySteps)
    /\ Instr' = Apply(Instr, AssemblySteps[asmPc])
    /\ asmPc' = asmPc + 1
    /\ IF asmPc = Len(AssemblySteps)
       THEN Finish("assemble")
       ELSE UNCHANGED << pc, halted, executed >>
    /\ UNCHANGED << cwd, fs, py, refs, heap, calc, posDiff, engine, failed,
                    dest, solver, serverCif >>

\* ------------------------------------------------------------- simulation
ParamValue(ins, name) ==
    LET hit == {i \in DOMAIN ins.parameters : ins.parameters[i].name = name}
    IN  IF hit = {} THEN 0 ELSE ins.parameters[CHOOSE i \in hit : TRUE].value

RECURSIVE RunInitialize(_, _)
\* The engine runs the initialize section, statement by statement, on the
\* declared variables (zero until assigned) and the instrument parameters.
RunInitialize(stmts, env) ==
    IF stmts = << >> THEN env
    ELSE RunInitialize(Tail(stmts),
            IF Head(stmts) = stmt_wavevector
            THEN [env EXCEPT !.wavevector = Wavevector(env.wavelength)]
            ELSE IF Head(stmts) = stmt_mono_theta
            THEN [env EXCEPT !.mono_theta = MonoTheta(env.mono_Q, env.wavevector)]
            ELSE env)

InitializeEnv(ins) ==
    RunInitialize(ins.initialize,
                  [wavelength |-> ParamValue(ins, "wavelength"),
                   mono_Q |-> ParamValue(ins, "mono_Q"),
                   wavevector |-> 0, mono_theta |-> 0])

\* The file the sample component reads its reflections from: the engine
\* opens the parameter's path from the directory it is started in.
ReflectionsFile(ins, dir) ==
    LET hit == {i \in DOMAIN ins.components : ins.components[i].reflections # Unset}
    IN  IF hit = {} THEN Unset
        ELSE Resolve(dir, ins.components[CHOOSE i \in hit : TRUE].reflections)

\* cell "data = Instr.run_full_instrument(ncount=5E6, mpi=4, ...)"
\* The instrument is handed to the engine as it is; a run that cannot read
\* its reflections, or fails for another reason, leaves no data to load.
Simulate ==
    /\ AtCell("simulate")
    /\ engine' = [invoked |-> TRUE,
                  reflections |-> ReflectionsFile(Instr, cwd),
                  wavevector |-> InitializeEnv(Instr).wavevector,
                  mono_theta |-> InitializeEnv(Instr).mono_theta]
    /\ \E ok \in BOOLEAN :
        /\ ok => NonEmptyFile(fs, ReflectionsFile(Instr, cwd))
        /\ IF ok
           THEN Finish("simulate") /\ UNCHANGED failed
           ELSE Raise("simulate")
    /\ UNCHANGED << cwd, fs, py, refs, heap, calc, posDiff, Instr, asmPc,
                    dest, solver, serverCif >>

\* cell "plotter.make_sub_plot(data)"
Plot ==
    /\ AtCell("plot")
    /\ Finish("plot")
    /\ UNCHANGED << cwd, fs, py, refs, heap, calc, posDiff, Instr, asmPc, engine,
                    failed, dest, solver, serverCif >>

Next ==
    \/ Workspace
    \/ DownloadCif
    \/ DownloadPseudo
    \/ ReadCif
    \/ Configure
    \/ SolverRun
    \/ ReadOutputDiff
    \/ ExportCif
    \/ Cif2hkl
    \/ Clone
    \/ EnterClone
    \/ Assemble
    \/ Simulate
    \/ Plot

Spec == Init /\ [][Next]_vars

\* ================================================================ properties
Range(q) == {q[i] : i \in DOMAIN q}
IsPrefix(a, b) == Len(a) <= Len(b) /\ a = SubSeq(b, 1, Len(a))
Ran(name) == name \in Range(executed)
Completed(name) == Ran(name) /\ ~(halted /\ Last(executed) = name)
Near(v, target, tol) == Abs(v - target) <= tol

\* C1: when the simulation engine has been invoked, the reflection file the
\* sample component names exists and is not empty (otherwise the engine is
\* never invoked).
C1_ReflectionsReadyBeforeEngine ==
    engine.invoked => NonEmptyFile(fs, engine.reflections)

\* C2: no cell is executed after a cell that failed, and the solver is never
\* invoked after a download that failed.
C2_FailureHaltsAtFailingStage ==
    /\ \A i \in DOMAIN executed : executed[i] \in failed => i = Len(executed)
    /\ solver # "idle" => failed \cap {"download_cif", "download_pseudo"} = {}

\* C3: after a relaxation that ended without convergence, the solver output
\* is not read, output.cif is not exported or converted, and no simulation runs.
C3_NonConvergenceStopsWorkflow ==
    solver = "not_converged" =>
        Range(executed) \cap {"read_output_diff", "export_cif", "cif2hkl", "simulate"} = {}

DeclaredBefore(comps, i, r) ==
    r = Absolute \/ \E j \in 1..(i - 1) : comps[j].name = r

RECURSIVE ChainEndsAtSource(_, _, _)
\* Following at_rel from component i reaches Source within fuel steps.
ChainEndsAtSource(comps, i, fuel) ==
    IF comps[i].at_rel = Absolute THEN comps[i].name = "Source"
    ELSE /\ fuel > 0
         /\ \E j \in DOMAIN comps :
               /\ comps[j].name = comps[i].at_rel
               /\ ChainEndsAtSource(comps, j, fuel - 1)

\* C4: after every prefix of the assembly statements, each component's
\* position and rotation reference is a component added earlier (no forward,
\* self or undeclared reference), and its placement chain ends at Source.
C4_RelativeReferencesDeclaredEarlier ==
    \A i \in DOMAIN Instr.components :
        /\ DeclaredBefore(Instr.components, i, Instr.components[i].at_rel)
        /\ DeclaredBefore(Instr.components, i, Instr.components[i].rot_rel)
        /\ ChainEndsAtSource(Instr.components, i, Len(Instr.components))

\* The whole instrument is assembled: the monitor hangs off the sample, and
\* the monochromator's rotation was re-referenced by set_ROTATED.
C4_Witness ==
    /\ asmPc > Len(AssemblySteps)
    /\ \E i \in DOMAIN Instr.components :
          Instr.components[i].name = "monitor" /\ Instr.components[i].at_rel = "sample"
    /\ \E i \in DOMAIN Instr.components :
          /\ Instr.components[i].name = "mono"
          /\ Instr.components[i].rot = "mono_theta"
          /\ Instr.components[i].rot_rel = "mono_pos"

\* The stage order the workflow is said to follow.
ClaimedOrder ==
    << "workspace", "download_cif", "download_pseudo", "read_cif", "configure",
       "solver_run", "read_output_diff", "export_cif", "cif2hkl", "assemble",
       "simulate", "plot" >>

InClaimedOrder(c) == c \in Range(ClaimedOrder)

UsesMonoTheta(comps) == \E i \in DOMAIN comps : comps[i].rot = "mono_theta"

\* Both Bragg statements are in the initialize section, wavevector first.
BraggInitialized(ins) ==
    \E i, j \in DOMAIN ins.initialize :
        i < j /\ ins.initialize[i] = stmt_wavevector /\ ins.initialize[j] = stmt_mono_theta

\* C7 as stated: the engine computes wavevector = 5.236 (to three decimals)
\* and mono_theta = 18.4 degrees (to one decimal), and both statements are
\* appended before a component using mono_theta is added.
C7_BraggAngle18_4 ==
    /\ UsesMonoTheta(Instr.components) => BraggInitialized(Instr)
    /\ engine.invoked =>
          /\ Near(engine.wavevector, RoundDiv(5236 * Scale, 1000), RoundDiv(5 * Scale, 10000))
          /\ Near(engine.mono_theta, RoundDiv(184 * Scale, 10), RoundDiv(5 * Scale, 100))

\* C7 amended: the engine computes wavevector = 5.236 (to three decimals) and
\* mono_theta = 18.7 degrees (to one decimal), and both statements are
\* appended before a component using mono_theta is added.
C7_BraggAngle18_7 ==
    /\ UsesMonoTheta(Instr.components) => BraggInitialized(Instr)
    /\ engine.invoked =>
          /\ Near(engine.wavevector, RoundDiv(5236 * Scale, 1000), RoundDiv(5 * Scale, 10000))
          /\ Near(engine.mono_theta, RoundDiv(187 * Scale, 10), RoundDiv(5 * Scale, 100))

\* The engine has run the initialize section of the assembled instrument.
C7_Witness ==
    /\ engine.invoked
    /\ engine.mono_theta > 0
    /\ UsesMonoTheta(Instr.components)
    /\ ParamValue(Instr, "wavelength") = RoundDiv(12 * Scale, 10)
    /\ ParamValue(Instr, "mono_Q") = RoundDiv(3355 * Scale, 1000)

\* C8: once output.cif is written, it holds the final positions of the solver
\* output espresso.pwo, and so does a reflection file converted from it.
C8_ExportedStructureIsRelaxed ==
    Completed("export_cif") =>
        /\ fs[Resolve(TmpRoot, ase_outfile_lit)].pos = fs[Resolve(TmpRoot, pwo_name)].pos
        /\ (Completed("cif2hkl") /\ "cif2hkl" \notin failed) =>
              fs[Cif2hklOut(TmpRoot, ase_outfile_lit)].pos = fs[Resolve(TmpRoot, pwo_name)].pos

NextCellIs(names) == ~halted /\ pc \in 1..Len(Cells) /\ Cells[pc] \in names

\* C10: the structure download, structure read, solver run, CIF export and
\* cif2hkl conversion run with tmpdir as working directory, the assembly and
\* the simulation with tmpdir/McStas_ViNYL_concept; the sample's
\* '../output.cif.hkl' is the file cif2hkl writes, next to the exported
\* output.cif; the pseudopotential file the solver configuration names is one
\* the pseudopotential download wrote to, and is there if that download
\* succeeded.
C10_WorkingDirectoriesAndPaths ==
    /\ NextCellIs({"download_cif", "read_cif", "solver_run", "export_cif", "cif2hkl"})
          => cwd = TmpRoot
    /\ NextCellIs({"assemble", "simulate"}) => cwd = Append(TmpRoot, "McStas_ViNYL_concept")
    /\ engine.invoked =>
          /\ <<"cif2hkl", engine.reflections>> \in dest
          /\ <<"export_cif", Append(Front(engine.reflections), "output.cif")>> \in dest
          /\ Front(engine.reflections) = TmpRoot
    /\ calc.set =>
          /\ <<"download_pseudo", PseudoPath(calc)>> \in dest
          /\ calc.pseudopotentials = py.pseudopotfile
          /\ Front(PseudoPath(calc)) = Append(TmpRoot, "pseudo")
          /\ "download_pseudo" \notin failed => IsFile(fs, PseudoPath(calc))

\* The engine was started in the clone directory with a converted file in place.
C10_Witness ==
    /\ engine.invoked
    /\ cwd = Append(TmpRoot, "McStas_ViNYL_concept")
    /\ calc.set
    /\ "cif2hkl" \notin failed
    /\ fs[engine.reflections].kind = "hkl"
====
